---- MODULE Spec2Model ----
(***************************************************************************)
(* A model of findclash.py: the perceptual image hash (image_hash), the    *)
(* Hamming distance on hex digests (hamming) and the greedy clusterer      *)
(* (update_hashdict, driven by findclash).                                 *)
(*                                                                         *)
(* A digest is a sequence of hexadecimal digits, each a number 0..15.      *)
(* The mapping `locations` is a Python dict: it keeps insertion order, so  *)
(* it is a sequence of [key, files] entries with pairwise distinct keys.   *)
(***************************************************************************)
EXTENDS Integers, Sequences, FiniteSets

VARIABLES
    tolerance,   \* findclash: the tolerance handed to update_hashdict
    func,        \* findclash: the hasher chosen, "sha1sum" | "image_hash" | "image_hash_color"
    locations,   \* findclash: the result mapping, in insertion order
    seen,        \* the files handed to update_hashdict so far, with the hasher's outcome
    status,      \* findclash: "running" | "returned" | "raised"
    config,      \* image_hash: [bytes_per_row, height, bits_per_color]
    image,       \* image_hash: the file hashed, [kind, content]
    digest,      \* image_hash: the value returned for `image`, Pending before the call
    colorret,    \* image_hash: [ret, nbits], the colour integer and the comparisons made
    base         \* the digest of the image before it was rescaled, Pending if it was not

vars == <<tolerance, func, locations, seen, status, config, image, digest, colorret, base>>

clusterVars == <<tolerance, func, locations, seen, status>>
hashVars == <<config, image, digest, colorret, base>>

----------------------------------------------------------------------------
(* Bounds of the model.                                                    *)

MaxFiles == 3        \* files handed to findclash in one run
MaxTolerance == 2    \* largest tolerance argument tried
MaxContent == 3      \* the image contents tried by the clusterer are numbered 0..MaxContent
MaxHeight == 2       \* image_hash heights tried by the hasher specification
MaxBytesPerRow == 1  \* image_hash bytes_per_row tried by the hasher specification
HeadLen == 3         \* pixels of an image of the hasher specification before the last one repeats
MaxBits == 2         \* bits_per_color tried besides the program's own 0 and 8
MaxPix == 2          \* luminance values of the hasher specification's images are 0..MaxPix
MaxGain == 2         \* the gains a of p -> a*p + b are num/den with num, den in 1..MaxGain
MaxOffset == 1       \* brightness offsets b, -MaxOffset..MaxOffset

(* Program constants.                                                      *)

HistBins == 256      \* bins of one channel of Image.histogram()
Channels == 3        \* len(histogram)//3: the channels of an RGB histogram
DefaultBytesPerRow == 1
DefaultHeight == 8
ColorHeight == 5
ColorBits == 8
DefaultTolerance == -1

----------------------------------------------------------------------------
(* Python's integer and string primitives, as the code uses them.          *)

Bool(b) == IF b THEN 1 ELSE 0

RECURSIVE Pow2(_)
\* 2^n: the value of 1 << n
Pow2(n) == IF n <= 0 THEN 1 ELSE 2 * Pow2(n - 1)

RECURSIVE HexDigits(_)
\* the digits of n in base 16, most significant first; <<0>> for 0 ("%x" % n)
HexDigits(n) == IF n < 16 THEN <<n>> ELSE Append(HexDigits(n \div 16), n % 16)

RECURSIVE Zeros(_)
Zeros(k) == IF k <= 0 THEN <<>> ELSE <<0>> \o Zeros(k - 1)

\* "%0{width}x" % n: a minimum field width, zero padded, never truncating
FormatHex(width, n) == LET d == HexDigits(n) IN Zeros(width - Len(d)) \o d

\* Python integers are unbounded: a parsed digest is kept as its base-16
\* numeral without leading zeros, most significant digit first (<<>> is 0).
RECURSIVE Strip(_)
Strip(x) == IF Len(x) > 0 /\ x[1] = 0 THEN Strip(Tail(x)) ELSE x

\* int(x, 16)
ParseHex(x) == Strip(x)

RECURSIVE XorDigit(_, _)
\* a ^ b on two digits (any two non-negative machine integers)
XorDigit(a, b) == IF a = 0 THEN b
                  ELSE IF b = 0 THEN a
                  ELSE 2 * XorDigit(a \div 2, b \div 2) + Bool((a % 2) # (b % 2))

\* a ^ b on two numerals: digit by digit from the least significant end
Xor(a, b) ==
    LET n == IF Len(a) > Len(b) THEN Len(a) ELSE Len(b)
        pa == Zeros(n - Len(a)) \o a
        pb == Zeros(n - Len(b)) \o b
    IN Strip([i \in 1..n |-> XorDigit(pa[i], pb[i])])

RECURSIVE DigitBits(_, _)
\* the while loop of hamming on a machine integer: ret += diff & 1; diff >>= 1
DigitBits(diff, ret) == IF diff > 0 THEN DigitBits(diff \div 2, ret + (diff % 2)) ELSE ret

RECURSIVE CountBits(_, _)
\* the same loop on a numeral, four iterations (one digit) at a time
CountBits(diff, ret) ==
    IF Len(diff) > 0
    THEN CountBits(SubSeq(diff, 1, Len(diff) - 1), DigitBits(diff[Len(diff)], ret))
    ELSE ret

hamming(x, y) == CountBits(Xor(ParseHex(x), ParseHex(y)), 0)

\* a slice index of a list of length n, as Python normalises it
PyIndex(i, n) == IF i < 0 THEN (IF n + i < 0 THEN 0 ELSE n + i)
                 ELSE IF i > n THEN n ELSE i

\* A histogram is kept by its non-zero entries: a function from the indices
\* (from 0) of the bins that hold pixels to their counts; every other entry of
\* the list of length n is 0.
RECURSIVE SumOver(_, _)
SumOver(h, S) == IF S = {} THEN 0
                 ELSE LET i == CHOOSE j \in S : TRUE IN h[i] + SumOver(h, S \ {i})

\* sum(histogram[a:b]) for a histogram h of length n
SliceSum(h, n, a, b) ==
    LET lo == PyIndex(a, n)
        hi == PyIndex(b, n)
    IN SumOver(h, {i \in DOMAIN h : lo <= i /\ i < hi})

----------------------------------------------------------------------------
(* image_hash, lines 23-48, on the bytes `shape` (indexed from 0) of the   *)
(* resized luminance image and the list `histogram` (indexed from 0).      *)

\* a comparison that needs a margin of more than one grey level
DiffBitShifted(p, q) == Bool(p > q + 1)

\* the comparison of line 28
DiffBit(p, q) == Bool(p > q)

RECURSIVE RowTotal(_, _, _, _, _)
\* the inner loop of lines 25-28, from index i with `total` so far
RowTotal(shape, column, width, i, total) ==
    IF i < width - 1
    THEN RowTotal(shape, column, width, i + 1,
                  total * 2 + DiffBit(shape[column + i], shape[column + i + 1]))
    ELSE total

RECURSIVE StructField(_, _, _, _, _)
\* the loop of lines 24-29 from row r (column = r*width), appended to `acc`
StructField(shape, bytes_per_row, height, r, acc) ==
    LET width == bytes_per_row * 8 + 1 IN
    IF r < height
    THEN StructField(shape, bytes_per_row, height, r + 1,
                     acc \o FormatHex(bytes_per_row * 2, RowTotal(shape, r * width, width, 0, 0)))
    ELSE acc

RECURSIVE WalkBins(_, _, _, _, _, _, _, _)
\* the while loop of lines 40-45 and the last comparison of line 46;
\* nbits counts the comparisons added to ret
WalkBins(h, n, offset, step, start, total, ret, nbits) ==
    IF start > offset
    THEN LET next_total == SliceSum(h, n, start, start + step) IN
         WalkBins(h, n, offset, step, start - step, next_total,
                  (ret + Bool(total > next_total)) * 2, nbits + 1)
    ELSE [ret |-> ret + Bool(total > SliceSum(h, n, offset, start + step)),
          nbits |-> nbits + 1]

RECURSIVE ColorWalk(_, _, _, _, _, _)
\* the loop of lines 36-46 over offset = 0, n//3, 2*(n//3), ... < n
ColorWalk(h, n, step, offset, ret, nbits) ==
    IF offset < n
    THEN LET start == HistBins - step \div 2 + offset
             w == WalkBins(h, n, offset, step, start,
                           SliceSum(h, n, start, offset + HistBins), ret * 2, nbits)
         IN ColorWalk(h, n, step, offset + n \div Channels, w.ret, w.nbits)
    ELSE [ret |-> ret, nbits |-> nbits]

\* lines 34-46: ret and the number of comparison bits put into it
ColorRet(histogram, n, bits_per_color) ==
    ColorWalk(histogram, n, HistBins \div (bits_per_color + 1), 0, 0, 0)

\* lines 23-48
HashBytes(shape, histogram, n, bytes_per_row, height, bits_per_color) ==
    LET struct == StructField(shape, bytes_per_row, height, 0, <<>>) IN
    IF bits_per_color = 0
    THEN struct
    ELSE struct \o FormatHex((bits_per_color * 3) \div 8,
                             ColorRet(histogram, n, bits_per_color).ret)

----------------------------------------------------------------------------
(* Files.  A file is [kind, content]: content is its bytes, which for an   *)
(* image are the luminances of its leading pixels in raster order (every   *)
(* later pixel repeats the last one); kind says how far the file can be    *)
(* read:                                                                   *)
(*   "image"       opens and decodes                                       *)
(*   "nonimage"    readable, but Image.open raises OSError                 *)
(*   "truncated"   Image.open succeeds, decoding the pixels raises OSError *)
(*   "unreadable"  open() raises PermissionError (an OSError)              *)

Ok(d) == [tag |-> "ok", hex |-> d]
NoneResult == [tag |-> "none", hex |-> <<>>]
Raised == [tag |-> "raise", hex |-> <<>>]
Pending == [tag |-> "pending", hex |-> <<>>]

\* image.resize((width, height)).convert('L').tobytes(): the image is taken
\* to have the requested size already, so that resizing copies it
Resized(file, width, height) ==
    [i \in 0 .. (width * height - 1) |->
        IF i < Len(file.content) THEN file.content[i + 1]
        ELSE IF Len(file.content) > 0 THEN file.content[Len(file.content)]
        ELSE 0]

\* the number of pixels of luminance v in that image
LevelCount(file, width, height, v) ==
    LET n == Len(file.content)
        last == IF n > 0 THEN file.content[n] ELSE 0
    IN Cardinality({k \in 1..n : k <= width * height /\ file.content[k] = v})
       + (IF v = last /\ width * height > n THEN width * height - n ELSE 0)

\* image.histogram() of the same image stored as RGB with r = g = b
Histogram(file, width, height) ==
    LET levels == {0} \cup {file.content[k] : k \in 1..Len(file.content)}
        bins == {ch * HistBins + v : ch \in 0 .. (Channels - 1), v \in levels}
    IN [i \in {j \in bins : LevelCount(file, width, height, j % HistBins) > 0} |->
           LevelCount(file, width, height, i % HistBins)]

RECURSIVE HexDump(_)
HexDump(bytes) == IF Len(bytes) = 0 THEN <<>>
                  ELSE FormatHex(2, bytes[1]) \o HexDump(Tail(bytes))

\* sha1(reading.read()).digest(): distinct contents get distinct digests
\* (collisions of SHA-1 are left out); the digest written is the length and
\* the bytes of the content
Sha1(bytes) == FormatHex(2, Len(bytes)) \o HexDump(bytes)

\* lines 8-10: open() raises for a file that cannot be read
sha1sum(file) == IF file.kind = "unreadable" THEN Raised ELSE Ok(Sha1(file.content))

\* lines 12-48
image_hash(file, bytes_per_row, height, bits_per_color) ==
    LET width == bytes_per_row * 8 + 1 IN
    IF file.kind \in {"nonimage", "unreadable"} THEN NoneResult       \* lines 14-18
    ELSE IF file.kind = "truncated" THEN Raised                      \* line 20, outside the try
    ELSE Ok(HashBytes(Resized(file, width, height), Histogram(file, width, height),
                      Channels * HistBins, bytes_per_row, height, bits_per_color))

----------------------------------------------------------------------------
(* update_hashdict, lines 50-67.                                           *)

\* locations.get(digest): the index of the entry with this key, 0 if none
Lookup(locs, d) == IF \E i \in 1..Len(locs) : locs[i].key = d
                   THEN CHOOSE i \in 1..Len(locs) : locs[i].key = d
                   ELSE 0

\* the file put at the head of the list instead
PrependTo(locs, i, filename) ==
    [locs EXCEPT ![i] = [key |-> locs[i].key, files |-> <<filename>> \o locs[i].files]]

\* locations[hash_].append(filename) for the entry at index i
AppendTo(locs, i, filename) ==
    [locs EXCEPT ![i] = [key |-> locs[i].key, files |-> Append(locs[i].files, filename)]]

\* locations[digest] = [filename] for a key that is not in the mapping
NewBucket(locs, d, filename) == Append(locs, [key |-> d, files |-> <<filename>>])

\* the bucket overwritten whether or not the key is there
ExactUpdateOverwrite(locs, d, filename) ==
    IF Lookup(locs, d) = 0 THEN NewBucket(locs, d, filename)
    ELSE [locs EXCEPT ![Lookup(locs, d)] = [key |-> d, files |-> <<filename>>]]

\* lines 56-61
ExactUpdate(locs, d, filename) ==
    IF Lookup(locs, d) = 0 THEN NewBucket(locs, d, filename)
    ELSE AppendTo(locs, Lookup(locs, d), filename)

\* the test with <= for <
MatchesLoose(key, d, tol) == hamming(key, d) <= tol

\* the test of line 64
Matches(key, d, tol) == hamming(key, d) < tol

RECURSIVE LastMatch(_, _, _, _)
\* a scan that keeps going and ends on the last matching entry
LastMatch(locs, d, tol, i) ==
    IF i > Len(locs) THEN 0
    ELSE LET later == LastMatch(locs, d, tol, i + 1) IN
         IF later # 0 THEN later
         ELSE IF Matches(locs[i].key, d, tol) THEN i ELSE 0

RECURSIVE FirstMatch(_, _, _, _)
\* the scan of lines 63-66 from index i: the first matching entry, 0 if none
FirstMatch(locs, d, tol, i) ==
    IF i > Len(locs) THEN 0
    ELSE IF Matches(locs[i].key, d, tol) THEN i
    ELSE FirstMatch(locs, d, tol, i + 1)

\* the bucket re-keyed by its newest member, so that the next file is
\* compared with the last member instead of the first
FuzzyUpdateRekey(locs, d, filename, tol) ==
    LET i == FirstMatch(locs, d, tol, 1) IN
    IF i = 0 THEN NewBucket(locs, d, filename)
    ELSE [locs EXCEPT ![i] = [key |-> d, files |-> Append(locs[i].files, filename)]]

\* lines 63-67
FuzzyUpdate(locs, d, filename, tol) ==
    LET i == FirstMatch(locs, d, tol, 1) IN
    IF i = 0 THEN NewBucket(locs, d, filename) ELSE AppendTo(locs, i, filename)

\* the test of lines 53-54 left out
update_hashdict_nocheck(filename, result, locs, tol) ==
    IF tol = 0 THEN ExactUpdate(locs, result.hex, filename)
    ELSE FuzzyUpdate(locs, result.hex, filename, tol)

\* lines 50-67, given the outcome `result` of hash_func(filename)
update_hashdict(filename, result, locs, tol) ==
    IF result.tag # "ok" THEN locs                                  \* lines 53-54
    ELSE IF tol = 0 THEN ExactUpdate(locs, result.hex, filename)    \* lines 56-61
    ELSE FuzzyUpdate(locs, result.hex, filename, tol)               \* lines 63-67

----------------------------------------------------------------------------
(* findclash, lines 69-92.                                                 *)

\* lines 71-76
ChooseFunc(tol, colors) ==
    IF tol > 0 THEN (IF colors THEN "image_hash_color" ELSE "image_hash") ELSE "sha1sum"

\* lines 72-78
ChooseTolerance(tol) == IF tol > 0 THEN tol ELSE 0

\* func(filename) for the hasher chosen on lines 71-76
HashFile(f, file) ==
    IF f = "sha1sum" THEN sha1sum(file)
    ELSE IF f = "image_hash_color" THEN image_hash(file, DefaultBytesPerRow, ColorHeight, ColorBits)
    ELSE image_hash(file, DefaultBytesPerRow, DefaultHeight, 0)

\* image number c: one spot of full luminance per set bit of c, at the odd
\* pixels 1, 3, ... of the first row, on black; each spot sets one bit of the
\* structural field
RECURSIVE SpotContent(_)
SpotContent(c) == IF c = 0 THEN <<0>>
                  ELSE <<0, 255 * (c % 2)>> \o SpotContent(c \div 2)

\* the files a directory may hold
ClusterFiles ==
    {[kind |-> "image", content |-> SpotContent(c)] : c \in 0 .. MaxContent}
    \cup {[kind |-> "nonimage", content |-> <<1>>],
          [kind |-> "truncated", content |-> <<2>>],
          [kind |-> "unreadable", content |-> <<>>]}

HashIdle == /\ config = [bytes_per_row |-> 0, height |-> 0, bits_per_color |-> 0]
            /\ image = [kind |-> "image", content |-> <<>>]
            /\ digest = Pending
            /\ colorret = [ret |-> 0, nbits |-> 0]
            /\ base = Pending

\* lines 69-78: the state when the loop of line 80 is entered
ClusterInit ==
    /\ \E tol \in DefaultTolerance .. MaxTolerance : \E colors \in BOOLEAN :
          /\ tolerance = ChooseTolerance(tol)
          /\ func = ChooseFunc(tol, colors)
    /\ locations = <<>>
    /\ seen = <<>>
    /\ status = "running"
    /\ HashIdle

\* lines 80-90 for one regular file: its name is its position among the files handed in
ProcessFile(file) ==
    /\ status = "running"
    /\ Len(seen) < MaxFiles
    /\ LET filename == Len(seen) + 1
           result == HashFile(func, file)
       IN /\ seen' = Append(seen, [kind |-> file.kind, content |-> file.content, result |-> result])
          /\ IF result.tag = "raise"
             THEN status' = "raised" /\ locations' = locations      \* the exception leaves findclash
             ELSE status' = status /\ locations' = update_hashdict(filename, result, locations, tolerance)
    /\ UNCHANGED <<tolerance, func>>
    /\ UNCHANGED hashVars

\* line 92
Return ==
    /\ status = "running"
    /\ status' = "returned"
    /\ UNCHANGED <<tolerance, func, locations, seen>>
    /\ UNCHANGED hashVars

ClusterNext == (\E file \in ClusterFiles : ProcessFile(file)) \/ Return

Spec == ClusterInit /\ [][ClusterNext]_vars

----------------------------------------------------------------------------
(* The hasher on its own: image_hash is called on an image, the image is   *)
(* then replaced by a brightness/contrast scaling of itself and hashed     *)
(* again.                                                                  *)

HashConfigs ==
    {[bytes_per_row |-> b, height |-> h, bits_per_color |-> c] :
        b \in 1..MaxBytesPerRow, h \in 1..MaxHeight, c \in (0..MaxBits) \cup {ColorBits}}

HashImages == {[kind |-> "image", content |-> m] : m \in [1..HeadLen -> 0..MaxPix]}

ClusterIdle == /\ tolerance = 0
               /\ func = "image_hash"
               /\ locations = <<>>
               /\ seen = <<>>
               /\ status = "idle"

HashInit ==
    /\ config \in HashConfigs
    /\ image \in HashImages
    /\ digest = Pending
    /\ colorret = [ret |-> 0, nbits |-> 0]
    /\ base = Pending
    /\ ClusterIdle

\* image_hash(image, **config), lines 12-48
CallImageHash ==
    /\ digest.tag = "pending"
    /\ digest' = image_hash(image, config.bytes_per_row, config.height, config.bits_per_color)
    /\ colorret' = IF config.bits_per_color > 0
                   THEN ColorRet(Histogram(image, config.bytes_per_row * 8 + 1, config.height),
                                 Channels * HistBins, config.bits_per_color)
                   ELSE [ret |-> 0, nbits |-> 0]
    /\ UNCHANGED <<config, image, base>>
    /\ UNCHANGED clusterVars

\* p -> a*p + b for the gain a = num/den
ScalePixel(p, num, den, b) == (num * p) \div den + b

\* the image with every pixel p replaced by a*p + b
Scaled(file, num, den, b) ==
    [kind |-> file.kind,
     content |-> [k \in 1..Len(file.content) |-> ScalePixel(file.content[k], num, den, b)]]

\* the next file is the hashed image under p -> a*p + b with the gain
\* a = num/den > 0: every a*p + b is a whole number within 0..255
Rescale(num, den, b) ==
    /\ digest.tag = "ok"
    /\ base.tag = "pending"
    /\ num # den \/ b # 0
    /\ \A k \in 1..Len(image.content) :
          /\ (num * image.content[k]) % den = 0
          /\ ScalePixel(image.content[k], num, den, b) >= 0
          /\ ScalePixel(image.content[k], num, den, b) <= 255
    /\ image' = Scaled(image, num, den, b)
    /\ base' = digest
    /\ digest' = Pending
    /\ UNCHANGED <<config, colorret>>
    /\ UNCHANGED clusterVars

HashNext ==
    \/ CallImageHash
    \/ \E num \in 1..MaxGain : \E den \in 1..MaxGain : \E b \in (-MaxOffset)..MaxOffset :
          Rescale(num, den, b)

HashSpec == HashInit /\ [][HashNext]_vars

----------------------------------------------------------------------------
(* Properties of the clusterer, checked under Spec.                        *)

Hashed(f) == seen[f].result.tag = "ok"
DigestOf(f) == seen[f].result.hex
Files(i) == {locations[i].files[j] : j \in 1..Len(locations[i].files)}
SameBucket(f, g) == \E i \in 1..Len(locations) : f \in Files(i) /\ g \in Files(i)
Occurrences(f) ==
    Cardinality({<<i, j>> \in (1..Len(locations)) \X (1..MaxFiles + 1) :
                    j <= Len(locations[i].files) /\ locations[i].files[j] = f})

\* three files F1, F2, F3 were handed in, in this order, with
\* dist(F1,F2) < tolerance, dist(F2,F3) < tolerance and dist(F1,F3) >= tolerance
ChainOfThree ==
    /\ tolerance > 0
    /\ Len(seen) = 3
    /\ \A f \in 1..3 : Hashed(f)
    /\ hamming(DigestOf(1), DigestOf(2)) < tolerance
    /\ hamming(DigestOf(2), DigestOf(3)) < tolerance
    /\ hamming(DigestOf(1), DigestOf(3)) >= tolerance

\* C1 as stated: the chain F1, F2, F3 ends in one bucket keyed by F1's hash
C1_ChainInOneBucket ==
    ChainOfThree => locations = << [key |-> DigestOf(1), files |-> <<1, 2, 3>>] >>

\* C1 amended: F3 is compared with the key (F1's hash) only, so the chain ends
\* with F1 and F2 in the bucket keyed by F1's hash and F3 alone in a second
\* bucket keyed by its own hash
C1_ChainSplits ==
    ChainOfThree => locations = << [key |-> DigestOf(1), files |-> <<1, 2>>],
                                   [key |-> DigestOf(3), files |-> <<3>>] >>

C1_Witness == ChainOfThree

\* C2: every file of every bucket has a hash within tolerance of the bucket's
\* key: at Hamming distance < tolerance when tolerance > 0, equal to the key
\* when tolerance = 0
C2_BucketInvariant ==
    \A i \in 1..Len(locations) : \A f \in Files(i) :
        /\ Hashed(f)
        /\ IF tolerance > 0
           THEN hamming(DigestOf(f), locations[i].key) < tolerance
           ELSE DigestOf(f) = locations[i].key

\* a member that is not the key, under a tolerance wider than 1
C2_Witness ==
    /\ tolerance > 1
    /\ \E i \in 1..Len(locations) : \E f \in Files(i) :
          hamming(DigestOf(f), locations[i].key) = tolerance - 1

\* C3: with tolerance = 0 two processed files share a bucket iff their byte
\* content is the same; identical a, b and a distinct c, in that order, give
\* {hash(a): [a, b], hash(c): [c]}
C3_ExactPartition ==
    tolerance = 0 =>
        /\ \A f, g \in 1..Len(seen) :
              (Hashed(f) /\ Hashed(g)) =>
                  (SameBucket(f, g) <=> seen[f].content = seen[g].content)
        /\ (/\ Len(seen) = 3
            /\ \A f \in 1..3 : Hashed(f)
            /\ seen[1].content = seen[2].content
            /\ seen[1].content # seen[3].content)
           => locations = << [key |-> DigestOf(1), files |-> <<1, 2>>],
                             [key |-> DigestOf(3), files |-> <<3>>] >>

C3_Witness ==
    /\ tolerance = 0
    /\ Len(seen) = 3
    /\ \A f \in 1..3 : Hashed(f)
    /\ seen[1].content = seen[2].content
    /\ seen[1].content # seen[3].content
    /\ Len(locations) = 2

\* the keys of the mapping at distance < tolerance from digest d
Near(d) == {i \in 1..Len(locations) : hamming(locations[i].key, d) < tolerance}

\* C4: with tolerance > 0 a hashed file is appended to the bucket of the first
\* key, in insertion order, at Hamming distance < tolerance from its hash, and
\* nothing else changes; with no such key exactly one bucket is added, keyed
\* by the file's hash, with the file as its only member
C4_FirstMatchRule ==
    [][(tolerance > 0 /\ Len(seen') = Len(seen) + 1 /\ seen'[Len(seen')].result.tag = "ok") =>
        LET f == Len(seen')
            d == seen'[f].result.hex
        IN IF Near(d) = {}
           THEN locations' = Append(locations, [key |-> d, files |-> <<f>>])
           ELSE LET k == CHOOSE i \in Near(d) : \A j \in Near(d) : i <= j
                IN locations' = [locations EXCEPT
                                    ![k] = [key |-> locations[k].key,
                                            files |-> Append(locations[k].files, f)]]
      ]_vars

\* the third file is near both keys and sits in the first bucket
C4_Witness ==
    /\ tolerance > 0
    /\ Len(seen) = 3
    /\ Len(locations) = 2
    /\ Hashed(3)
    /\ hamming(locations[1].key, DigestOf(3)) < tolerance
    /\ hamming(locations[2].key, DigestOf(3)) < tolerance
    /\ locations[1].files = <<1, 3>>

\* C5 as stated: a file that fails to hash never aborts the run
C5_NoAbort == status # "raised"

C6_Exactly ==
    /\ \A i \in 1..Len(locations) : Len(locations[i].files) > 0
    /\ \A f \in 1..Len(seen) : Occurrences(f) = IF Hashed(f) THEN 1 ELSE 0

\* C6: a file without a fingerprint leaves the mapping unchanged, every file
\* with a fingerprint is in exactly one bucket exactly once, and no bucket is
\* empty
C6_OnlyHashedFiles ==
    /\ []C6_Exactly
    /\ [][(Len(seen') = Len(seen) + 1 /\ seen'[Len(seen')].result.tag = "none")
             => locations' = locations]_vars

\* a file without a fingerprint was passed over and a later file was clustered
C6_Witness ==
    \E f, g \in 1..Len(seen) :
        /\ f < g
        /\ seen[f].result.tag = "none"
        /\ Hashed(g)
        /\ Len(locations) > 0

C8_Representative ==
    \A i \in 1..Len(locations) :
        LET files == locations[i].files IN
        /\ Len(files) > 0
        /\ Hashed(files[1])
        /\ DigestOf(files[1]) = locations[i].key
        /\ \A g \in 1..Len(seen) :
              (Hashed(g) /\ DigestOf(g) = locations[i].key) => files[1] <= g
        /\ \A j \in 1..(Len(files) - 1) : files[j] < files[j + 1]

C8_AppendOnly ==
    /\ Len(locations') >= Len(locations)
    /\ Len(locations') <= Len(locations) + 1
    /\ \A i \in 1..Len(locations) :
          /\ locations'[i].key = locations[i].key
          /\ \/ locations'[i].files = locations[i].files
             \/ locations'[i].files = Append(locations[i].files, Len(seen'))
    /\ Len(locations') = Len(locations) + 1
          => locations'[Len(locations')].files = <<Len(seen')>>

\* C8: a key is never removed, replaced or moved; the first member of a bucket
\* is the first-seen file whose hash is the key; a bucket's list changes only
\* by the newly processed file being appended (members stay in discovery order)
C8_PermanentRepresentative ==
    /\ []C8_Representative
    /\ [][C8_AppendOnly]_vars

\* a file joined the first bucket after a second bucket had been created
C8_Witness ==
    /\ Len(locations) = 2
    /\ locations[1].files = <<1, 3>>
    /\ locations[2].files = <<2>>

----------------------------------------------------------------------------
(* Properties of the hasher, checked under HashSpec.                       *)

\* the hex characters of the structural field
StructLen == config.height * (config.bytes_per_row * 2)

StructOf(d) == SubSeq(d.hex, 1, StructLen)

\* C7 as stated: a fingerprint is height fields of bytes_per_row*2 hex
\* characters plus, when bits_per_color > 0, (bits_per_color*3)//8 more
C7_FixedLength ==
    digest.tag = "ok" =>
        Len(digest.hex) = StructLen + (IF config.bits_per_color > 0
                                       THEN (config.bits_per_color * 3) \div 8
                                       ELSE 0)

\* C9: the structural field of the image scaled by p -> a*p + b, a > 0, is
\* the structural field of the image
C9_ScaleInvariant ==
    (digest.tag = "ok" /\ base.tag = "ok") => StructOf(digest) = StructOf(base)

\* a scaled image whose structural field has a set bit
C9_Witness ==
    /\ digest.tag = "ok"
    /\ base.tag = "ok"
    /\ \E k \in 1..StructLen : digest.hex[k] # 0
    /\ \E k \in 1..(Len(image.content) - 1) : image.content[k] > image.content[k + 1] + 1

\* C10 as stated: bits_per_color comparison bits for each of the 3 channels,
\* so the colour integer is below 2^(3*bits_per_color)
C10_ColorBitCount ==
    (digest.tag = "ok" /\ config.bits_per_color > 0) =>
        /\ colorret.nbits = Channels * config.bits_per_color
        /\ colorret.ret < Pow2(3 * config.bits_per_color)

====
